---- MODULE Spec2Model ----
(***************************************************************************)
(* A model of runner-utils (src/lib.rs): run_with_timeout spawns a child   *)
(* process, waits for it for at most `timeout`, and on overrun kills and   *)
(* reaps it.  The operating system (process table, passage of time, the    *)
(* child's own behaviour, failing system calls) is the environment.        *)
(***************************************************************************)
EXTENDS Integers, Sequences, FiniteSets, TLC

\* ---------------------------------------------------------------- bounds
MaxTimeout == 1        \* timeouts are 0..MaxTimeout clock ticks
MaxExitCode == 1       \* a child exits with a code in 0..MaxExitCode

SIGKILL == 9           \* the signal Child::kill sends

\* Two threads, each calling run_with_timeout once, in any interleaving.
Calls == {1, 2}
Pids == 1..Cardinality(Calls)
Timeouts == 0..MaxTimeout
ExitCodes == 0..MaxExitCode

\* Command specifications: the program followed by its arguments.
Commands == {<<"true">>, <<"sleep", "10">>}

\* The io::Error values each system call can fail with.
SpawnErrors == {"ENOENT", "EACCES"}
WaitErrors == {"ECHILD"}
KillErrors == {"EPERM"}

\* ------------------------------------------------------------ data types
\* process::ExitStatus: an exit code or a terminating signal (0 = none).
ExitStatus(code, signal) == [code |-> code, signal |-> signal]
NoStatus == [code |-> -1, signal |-> -1]

\* enum IoErrorContext
IoErrorContext(tag, command) == [tag |-> tag, command |-> command]
NoContext == IoErrorContext("none", "")

\* enum RunError and the Result<ExitStatus, RunError> the call returns.
Ok(exit_status) ==
    [kind |-> "Ok", status |-> exit_status, context |-> NoContext, error |-> "none"]
TimedOut ==
    [kind |-> "TimedOut", status |-> NoStatus, context |-> NoContext, error |-> "none"]
Io(ctx, error) ==
    [kind |-> "Io", status |-> NoStatus, context |-> ctx, error |-> error]
NoResult ==
    [kind |-> "none", status |-> NoStatus, context |-> NoContext, error |-> "none"]

\* fn context: the closure that wraps an io::Error with its context.
context(ctx, error) == Io(ctx, error)

\* format!("{:?}", command): every word quoted, words separated by a blank.
RECURSIVE DebugFmt(_)
DebugFmt(command) ==
    IF Len(command) = 0 THEN ""
    ELSE IF Len(command) = 1 THEN "\"" \o Head(command) \o "\""
    ELSE "\"" \o Head(command) \o "\" " \o DebugFmt(Tail(command))

\* An entry of the operating system's process table.
\*   state:   "free" | "running" | "zombie" | "reaped"
\*   status:  the termination status once the process has terminated
\*   sigkill: a SIGKILL is pending
\*   exitAt:  the waiting call's clock when the process terminated
\*   exitPc:  the waiting call's position when the process terminated
FreeEntry ==
    [state |-> "free", status |-> NoStatus, sigkill |-> FALSE,
     exitAt |-> -1, exitPc |-> "none"]

VARIABLES
    pc,        \* position of each invocation in run_with_timeout
    command,   \* the command each invocation was given
    timeout,   \* the timeout each invocation was given
    child,     \* the pid held by the invocation's Child handle (0 = none)
    elapsed,   \* clock ticks spent so far in wait_timeout
    result,    \* the value the invocation returned
    steps,     \* the operations the invocation has executed, with outcomes
    ptable,    \* the operating system's process table
    binary_path,  \* the path last given to binary_kind
    kind,         \* the BinaryKind it returned ("none" before the first call)
    test          \* what is_test returned for that kind

\* The state of the binary classifier; run_with_timeout never touches it.
kindVars == <<binary_path, kind, test>>

vars == <<pc, command, timeout, child, elapsed, result, steps, ptable, kindVars>>

Terminal == {"Completed", "Failed"}

Init ==
    /\ pc = [i \in Calls |-> "NotStarted"]
    /\ command = [i \in Calls |-> <<>>]
    /\ timeout = [i \in Calls |-> 0]
    /\ child = [i \in Calls |-> 0]
    /\ elapsed = [i \in Calls |-> 0]
    /\ result = [i \in Calls |-> NoResult]
    /\ steps = [i \in Calls |-> <<>>]
    /\ ptable = [p \in Pids |-> FreeEntry]
    /\ binary_path = <<>>
    /\ kind = "none"
    /\ test = FALSE

\* The pid the operating system gives to the next process.
FreshPid == Cardinality({p \in Pids : ptable[p].state # "free"}) + 1

\* The invocation holding pid p.
Owner(p) == CHOOSE i \in Calls : child[i] = p

\* ----------------------------------------------------- run_with_timeout
\* command.spawn() succeeds: the child runs and the handle holds its pid.
SpawnOk(i) ==
    /\ pc[i] = "NotStarted"
    /\ steps' = [steps EXCEPT ![i] = Append(@, "spawn.ok")]
    /\ \E c \in Commands, t \in Timeouts :
        /\ command' = [command EXCEPT ![i] = c]
        /\ timeout' = [timeout EXCEPT ![i] = t]
    /\ child' = [child EXCEPT ![i] = FreshPid]
    /\ ptable' = [ptable EXCEPT ![FreshPid] = [FreeEntry EXCEPT !.state = "running"]]
    /\ pc' = [pc EXCEPT ![i] = "Spawned"]
    /\ UNCHANGED <<kindVars, elapsed, result>>

\* Faulty variant of SpawnErr: the context carries the program name only.
SpawnErr_ProgramOnly(i) ==
    /\ pc[i] = "NotStarted"
    /\ steps' = [steps EXCEPT ![i] = Append(@, "spawn.err")]
    /\ \E c \in Commands, t \in Timeouts, error \in SpawnErrors :
        /\ command' = [command EXCEPT ![i] = c]
        /\ timeout' = [timeout EXCEPT ![i] = t]
        /\ result' = [result EXCEPT ![i] = Io(IoErrorContext("Command", Head(c)), error)]
    /\ pc' = [pc EXCEPT ![i] = "Failed"]
    /\ UNCHANGED <<kindVars, child, elapsed, ptable>>

\* command.spawn() fails: `?` returns the Io error with the Command context.
SpawnErr(i) ==
    /\ pc[i] = "NotStarted"
    /\ steps' = [steps EXCEPT ![i] = Append(@, "spawn.err")]
    /\ \E c \in Commands, t \in Timeouts, error \in SpawnErrors :
        /\ command' = [command EXCEPT ![i] = c]
        /\ timeout' = [timeout EXCEPT ![i] = t]
        /\ result' = [result EXCEPT ![i] = Io(IoErrorContext("Command", DebugFmt(c)), error)]
    /\ pc' = [pc EXCEPT ![i] = "Failed"]
    /\ UNCHANGED <<kindVars, child, elapsed, ptable>>

\* Faulty variant of WaitTimeoutSome: the status is collected but the call
\* goes on as if the deadline had elapsed.
WaitTimeoutSome_ThenKill(i) ==
    /\ pc[i] = "Spawned"
    /\ steps' = [steps EXCEPT ![i] = Append(@, "wait_timeout.some")]
    /\ ptable[child[i]].state = "zombie"
    /\ ptable' = [ptable EXCEPT ![child[i]].state = "reaped"]
    /\ pc' = [pc EXCEPT ![i] = "TimedOutKilling"]
    /\ UNCHANGED <<kindVars, command, timeout, child, elapsed, result>>

\* Faulty variant of WaitTimeoutSome: the status returned is always "exited with 0".
WaitTimeoutSome_ZeroStatus(i) ==
    /\ pc[i] = "Spawned"
    /\ steps' = [steps EXCEPT ![i] = Append(@, "wait_timeout.some")]
    /\ ptable[child[i]].state = "zombie"
    /\ ptable' = [ptable EXCEPT ![child[i]].state = "reaped"]
    /\ result' = [result EXCEPT ![i] = Ok(ExitStatus(0, 0))]
    /\ pc' = [pc EXCEPT ![i] = "Completed"]
    /\ UNCHANGED <<kindVars, command, timeout, child, elapsed>>

\* child.wait_timeout(timeout) returns Ok(Some(exit_status)): the child has
\* terminated, the wait collected its status, and the call returns it.
WaitTimeoutSome(i) ==
    /\ pc[i] = "Spawned"
    /\ steps' = [steps EXCEPT ![i] = Append(@, "wait_timeout.some")]
    /\ ptable[child[i]].state = "zombie"
    /\ ptable' = [ptable EXCEPT ![child[i]].state = "reaped"]
    /\ result' = [result EXCEPT ![i] = Ok(ptable[child[i]].status)]
    /\ pc' = [pc EXCEPT ![i] = "Completed"]
    /\ UNCHANGED <<kindVars, command, timeout, child, elapsed>>

\* Faulty variant of WaitTimeoutNone: the deadline is never seen to have elapsed.
WaitTimeoutNone_Never(i) ==
    /\ pc[i] = "Spawned"
    /\ steps' = [steps EXCEPT ![i] = Append(@, "wait_timeout.none")]
    /\ elapsed[i] > timeout[i]
    /\ ptable[child[i]].state = "running"
    /\ pc' = [pc EXCEPT ![i] = "TimedOutKilling"]
    /\ UNCHANGED <<kindVars, command, timeout, child, elapsed, result, ptable>>

\* child.wait_timeout(timeout) returns Ok(None): the deadline elapsed and
\* the child had not terminated.
WaitTimeoutNone(i) ==
    /\ pc[i] = "Spawned"
    /\ steps' = [steps EXCEPT ![i] = Append(@, "wait_timeout.none")]
    /\ elapsed[i] = timeout[i]
    /\ ptable[child[i]].state = "running"
    /\ pc' = [pc EXCEPT ![i] = "TimedOutKilling"]
    /\ UNCHANGED <<kindVars, command, timeout, child, elapsed, result, ptable>>

\* Faulty variant of WaitTimeoutErr: the child is killed before the error
\* is returned.
WaitTimeoutErr_KillFirst(i) ==
    /\ pc[i] = "Spawned"
    /\ steps' = [steps EXCEPT ![i] = Append(@, "wait_timeout.err")]
    /\ \E error \in WaitErrors :
        result' = [result EXCEPT ![i] = context(IoErrorContext("WaitWithTimeout", ""), error)]
    /\ ptable' = [ptable EXCEPT ![child[i]].sigkill = TRUE]
    /\ pc' = [pc EXCEPT ![i] = "Failed"]
    /\ UNCHANGED <<kindVars, command, timeout, child, elapsed>>

\* child.wait_timeout(timeout) returns Err: `?` returns WaitWithTimeout.
WaitTimeoutErr(i) ==
    /\ pc[i] = "Spawned"
    /\ steps' = [steps EXCEPT ![i] = Append(@, "wait_timeout.err")]
    /\ \E error \in WaitErrors :
        result' = [result EXCEPT ![i] = context(IoErrorContext("WaitWithTimeout", ""), error)]
    /\ pc' = [pc EXCEPT ![i] = "Failed"]
    /\ UNCHANGED <<kindVars, command, timeout, child, elapsed, ptable>>

\* Faulty variant of KillOk: the signal goes to the first process of the table.
KillOk_FirstPid(i) ==
    /\ pc[i] = "TimedOutKilling"
    /\ steps' = [steps EXCEPT ![i] = Append(@, "kill.ok")]
    /\ ptable' = [ptable EXCEPT ![1].sigkill = TRUE]
    /\ pc' = [pc EXCEPT ![i] = "Reaping"]
    /\ UNCHANGED <<kindVars, command, timeout, child, elapsed, result>>

\* Faulty variant of KillOk: the final wait is skipped.
KillOk_NoWait(i) ==
    /\ pc[i] = "TimedOutKilling"
    /\ steps' = [steps EXCEPT ![i] = Append(@, "kill.ok")]
    /\ ptable' = [ptable EXCEPT ![child[i]].sigkill = TRUE]
    /\ pc' = [pc EXCEPT ![i] = "Reaped"]
    /\ UNCHANGED <<kindVars, command, timeout, child, elapsed, result>>

\* child.kill() succeeds: SIGKILL is sent to the pid of the handle.
KillOk(i) ==
    /\ pc[i] = "TimedOutKilling"
    /\ steps' = [steps EXCEPT ![i] = Append(@, "kill.ok")]
    /\ ptable' = [ptable EXCEPT ![child[i]].sigkill = TRUE]
    /\ pc' = [pc EXCEPT ![i] = "Reaping"]
    /\ UNCHANGED <<kindVars, command, timeout, child, elapsed, result>>

\* Faulty variant of KillErr: after a failed kill the bounded wait is tried again.
KillErr_Retry(i) ==
    /\ pc[i] = "TimedOutKilling"
    /\ steps' = [steps EXCEPT ![i] = Append(@, "kill.err")]
    /\ pc' = [pc EXCEPT ![i] = "Spawned"]
    /\ UNCHANGED <<kindVars, command, timeout, child, elapsed, result, ptable>>

\* Faulty variant of KillErr: the error is tagged with the context of the final wait.
KillErr_WrongContext(i) ==
    /\ pc[i] = "TimedOutKilling"
    /\ steps' = [steps EXCEPT ![i] = Append(@, "kill.err")]
    /\ \E error \in KillErrors :
        result' = [result EXCEPT ![i] = context(IoErrorContext("WaitForProcess", ""), error)]
    /\ pc' = [pc EXCEPT ![i] = "Failed"]
    /\ UNCHANGED <<kindVars, command, timeout, child, elapsed, ptable>>

\* child.kill() fails: `?` returns KillProcess; no wait follows.
KillErr(i) ==
    /\ pc[i] = "TimedOutKilling"
    /\ steps' = [steps EXCEPT ![i] = Append(@, "kill.err")]
    /\ \E error \in KillErrors :
        result' = [result EXCEPT ![i] = context(IoErrorContext("KillProcess", ""), error)]
    /\ pc' = [pc EXCEPT ![i] = "Failed"]
    /\ UNCHANGED <<kindVars, command, timeout, child, elapsed, ptable>>

\* Faulty variant of WaitOk: the wait only returns for a child the signal terminated.
WaitOk_KilledOnly(i) ==
    /\ pc[i] = "Reaping"
    /\ steps' = [steps EXCEPT ![i] = Append(@, "wait.ok")]
    /\ ptable[child[i]].state = "zombie"
    /\ ptable[child[i]].status.signal = SIGKILL
    /\ ptable' = [ptable EXCEPT ![child[i]].state = "reaped"]
    /\ pc' = [pc EXCEPT ![i] = "Reaped"]
    /\ UNCHANGED <<kindVars, command, timeout, child, elapsed, result>>

\* Faulty variant of WaitOk: the wait returns without the child having terminated.
WaitOk_NoReap(i) ==
    /\ pc[i] = "Reaping"
    /\ steps' = [steps EXCEPT ![i] = Append(@, "wait.ok")]
    /\ pc' = [pc EXCEPT ![i] = "Reaped"]
    /\ UNCHANGED <<kindVars, command, timeout, child, elapsed, result, ptable>>

\* child.wait() succeeds: it blocks until the child has terminated and
\* collects (and drops) its status.
WaitOk(i) ==
    /\ pc[i] = "Reaping"
    /\ steps' = [steps EXCEPT ![i] = Append(@, "wait.ok")]
    /\ ptable[child[i]].state = "zombie"
    /\ ptable' = [ptable EXCEPT ![child[i]].state = "reaped"]
    /\ pc' = [pc EXCEPT ![i] = "Reaped"]
    /\ UNCHANGED <<kindVars, command, timeout, child, elapsed, result>>

\* Faulty variant of WaitErr: after a failed final wait the kill is retried.
WaitErr_RetryKill(i) ==
    /\ pc[i] = "Reaping"
    /\ steps' = [steps EXCEPT ![i] = Append(@, "wait.err")]
    /\ pc' = [pc EXCEPT ![i] = "TimedOutKilling"]
    /\ UNCHANGED <<kindVars, command, timeout, child, elapsed, result, ptable>>

\* Faulty variant of WaitErr: the failure of the final wait is swallowed.
WaitErr_Swallowed(i) ==
    /\ pc[i] = "Reaping"
    /\ steps' = [steps EXCEPT ![i] = Append(@, "wait.err")]
    /\ result' = [result EXCEPT ![i] = TimedOut]
    /\ pc' = [pc EXCEPT ![i] = "Failed"]
    /\ UNCHANGED <<kindVars, command, timeout, child, elapsed, ptable>>

\* child.wait() fails: `?` returns WaitForProcess.
WaitErr(i) ==
    /\ pc[i] = "Reaping"
    /\ steps' = [steps EXCEPT ![i] = Append(@, "wait.err")]
    /\ \E error \in WaitErrors :
        result' = [result EXCEPT ![i] = context(IoErrorContext("WaitForProcess", ""), error)]
    /\ pc' = [pc EXCEPT ![i] = "Failed"]
    /\ UNCHANGED <<kindVars, command, timeout, child, elapsed, ptable>>

\* Faulty variant of ReturnTimedOut: the status of a child that exited on
\* its own is returned.
ReturnTimedOut_OkIfExited(i) ==
    /\ pc[i] = "Reaped"
    /\ result' = [result EXCEPT ![i] =
            IF ptable[child[i]].status.signal = 0
            THEN Ok(ptable[child[i]].status) ELSE TimedOut]
    /\ pc' = [pc EXCEPT ![i] =
            IF ptable[child[i]].status.signal = 0 THEN "Completed" ELSE "Failed"]
    /\ UNCHANGED <<kindVars, command, timeout, child, elapsed, steps, ptable>>

\* Err(RunError::TimedOut)
ReturnTimedOut(i) ==
    /\ pc[i] = "Reaped"
    /\ result' = [result EXCEPT ![i] = TimedOut]
    /\ pc' = [pc EXCEPT ![i] = "Failed"]
    /\ UNCHANGED <<kindVars, command, timeout, child, elapsed, steps, ptable>>

\* ---------------------------------------------------------- environment
\* A clock tick passes while the invocation is in wait_timeout.
Tick(i) ==
    /\ pc[i] = "Spawned"
    /\ elapsed[i] < timeout[i]
    /\ elapsed' = [elapsed EXCEPT ![i] = @ + 1]
    /\ UNCHANGED <<kindVars, pc, command, timeout, child, result, steps, ptable>>

\* A running process exits on its own with some exit code.
ChildExit(p) ==
    /\ ptable[p].state = "running"
    /\ \E code \in ExitCodes :
        ptable' = [ptable EXCEPT ![p] =
            [@ EXCEPT !.state = "zombie", !.status = ExitStatus(code, 0),
                      !.exitAt = elapsed[Owner(p)], !.exitPc = pc[Owner(p)]]]
    /\ UNCHANGED <<kindVars, pc, command, timeout, child, elapsed, result, steps>>

\* A running process with a pending SIGKILL is terminated by it.
ChildKilled(p) ==
    /\ ptable[p].state = "running"
    /\ ptable[p].sigkill
    /\ ptable' = [ptable EXCEPT ![p] =
            [@ EXCEPT !.state = "zombie", !.status = ExitStatus(0, SIGKILL),
                      !.exitAt = elapsed[Owner(p)], !.exitPc = pc[Owner(p)]]]
    /\ UNCHANGED <<kindVars, pc, command, timeout, child, elapsed, result, steps>>

run_with_timeout(i) ==
    \/ SpawnOk(i)
    \/ SpawnErr(i)
    \/ WaitTimeoutSome(i)
    \/ WaitTimeoutNone(i)
    \/ WaitTimeoutErr(i)
    \/ KillOk(i)
    \/ KillErr(i)
    \/ WaitOk(i)
    \/ WaitErr(i)
    \/ ReturnTimedOut(i)

Next ==
    \/ \E i \in Calls : run_with_timeout(i)
    \/ \E i \in Calls : Tick(i)
    \/ \E p \in Pids : ChildExit(p)
    \/ \E p \in Pids : ChildKilled(p)

Spec == Init /\ [][Next]_vars

\* The specification with the scheduling the code relies on: the calling
\* thread keeps running and every system call returns, the clock advances
\* while wait_timeout blocks, and a process with a pending SIGKILL dies.
\* No fairness is put on failures or on the child exiting on its own.
Fairness ==
    /\ \A i \in Calls :
        /\ WF_vars(SpawnOk(i) \/ SpawnErr(i))
        /\ WF_vars(Tick(i))
        /\ WF_vars(WaitTimeoutSome(i) \/ WaitTimeoutNone(i))
        /\ WF_vars(KillOk(i) \/ KillErr(i))
        /\ WF_vars(WaitOk(i))
        /\ WF_vars(ReturnTimedOut(i))
    /\ \A p \in Pids : WF_vars(ChildKilled(p))

FairSpec == Init /\ [][Next]_vars /\ Fairness

\* ---------------------------------------------------------- binary_kind
MaxComponents == 2     \* a path has at most MaxComponents components

\* A name is the sequence of its bytes; "FF" is a byte that is no UTF-8.
Deps == <<"d", "e", "p", "s">>
RustDocTest == <<"r", "u", "s", "t", "d", "o", "c", "t", "e", "s", "t">>
Names ==
    {Deps, <<"D", "e", "p", "s">>, <<"d", "e", "p">>, Deps \o <<"x">>,
     Deps \o <<"FF">>, RustDocTest, RustDocTest \o <<"1">>,
     RustDocTest \o <<"f", "o", "o">>, RustDocTest \o <<"FF">>,
     SubSeq(RustDocTest, 1, 10), <<"x">> \o RustDocTest, <<"b", "i", "n">>}

\* std::path::Component: the root directory, ".", ".." or a normal name.
Normal(name) == [c |-> "Normal", name |-> name]
RootDir == [c |-> "RootDir", name |-> <<>>]
CurDir == [c |-> "CurDir", name |-> <<>>]
ParentDir == [c |-> "ParentDir", name |-> <<>>]
Components == {RootDir, CurDir, ParentDir} \cup {Normal(n) : n \in Names}

\* A path as Path::components yields it: the root and "." only come first.
Paths ==
    {path \in UNION {[1..n -> Components] : n \in 0..MaxComponents} :
        \A k \in DOMAIN path : k > 1 => path[k] \notin {RootDir, CurDir}}

\* Option<T>
None == [some |-> FALSE, val |-> <<>>]
Some(v) == [some |-> TRUE, val |-> v]

\* Path::parent: the path without its last component; None for the empty
\* path and for the root.
parent(path) ==
    IF Len(path) = 0 \/ path[Len(path)] = RootDir THEN None
    ELSE Some(SubSeq(path, 1, Len(path) - 1))

\* Path::file_name: the last component if it is a normal name.
file_name(path) ==
    IF Len(path) > 0 /\ path[Len(path)].c = "Normal"
    THEN Some(path[Len(path)].name) ELSE None

\* OsStr::to_str: the name if it is valid UTF-8.
to_str(name) ==
    IF \E k \in DOMAIN name : name[k] = "FF" THEN None ELSE Some(name)

\* .and_then(|p| p.file_name())
and_then_file_name(opt) == IF opt.some THEN file_name(opt.val) ELSE None

\* .and_then(|name| name.to_str())
and_then_to_str(opt) == IF opt.some THEN to_str(opt.val) ELSE None

\* str::starts_with
starts_with(name, prefix) ==
    /\ Len(name) >= Len(prefix)
    /\ SubSeq(name, 1, Len(prefix)) = prefix

\* Faulty variant of binary_kind: a doc test directory must be named
\* exactly "rustdoctest".
binary_kind_ExactDocTest(path) ==
    LET exe_parent == parent(path)
        parent_dir_name == and_then_to_str(and_then_file_name(exe_parent))
    IN  IF parent_dir_name = Some(Deps) THEN "Test"
        ELSE IF parent_dir_name = Some(RustDocTest) THEN "DocTest"
        ELSE "Other"

\* pub fn binary_kind(binary_path: &Path) -> BinaryKind
binary_kind(path) ==
    LET exe_parent == parent(path)
        parent_dir_name == and_then_to_str(and_then_file_name(exe_parent))
    IN  IF parent_dir_name = Some(Deps) THEN "Test"
        ELSE IF parent_dir_name.some /\ starts_with(parent_dir_name.val, RustDocTest)
             THEN "DocTest"
        ELSE "Other"

\* BinaryKind::is_test
is_test(k) ==
    CASE k \in {"Test", "DocTest"} -> TRUE
      [] k = "Other" -> FALSE

\* A caller classifies a path and asks whether it is a test.
Classify(path) ==
    /\ binary_path' = path
    /\ kind' = binary_kind(path)
    /\ test' = is_test(binary_kind(path))
    /\ UNCHANGED <<pc, command, timeout, child, elapsed, result, steps, ptable>>

KindNext == \E path \in Paths : Classify(path)

KindSpec == Init /\ [][KindNext]_vars

\* ================================================================ claims
Returned(i) == pc[i] \in Terminal
HasChild(i) == child[i] # 0
Child(i) == ptable[child[i]]
Did(i, op) == \E k \in DOMAIN steps[i] : steps[i][k] = op
Last(i) == steps[i][Len(steps[i])]
Failures == {"spawn.err", "wait_timeout.err", "kill.err", "wait.err"}

\* C1 (as stated): whenever a call whose spawn succeeded has returned, its
\* child has been waited to completion or killed and reaped.
C1_EveryReturnReaped ==
    \A i \in Calls :
        (Returned(i) /\ HasChild(i)) => Child(i).state = "reaped"

\* C1 (amended): a call whose spawn succeeded and that returned Ok has
\* waited its child to its natural completion, one that returned TimedOut
\* has killed and reaped it; a call that returned an Io error after the
\* spawn returns with the child not reaped.
C1_ReturnReapedUnlessIo ==
    \A i \in Calls :
        (Returned(i) /\ HasChild(i)) =>
            /\ result[i].kind = "Ok" =>
                /\ Child(i).state = "reaped"
                /\ ~Child(i).sigkill
                /\ Child(i).status.signal = 0
            /\ result[i].kind = "TimedOut" =>
                /\ Child(i).state = "reaped"
                /\ Child(i).sigkill
            /\ result[i].kind = "Io" => Child(i).state \in {"running", "zombie"}

C1_Witness ==
    \E i, j \in Calls :
        /\ result[i].kind = "Ok" /\ Child(i).state = "reaped"
        /\ result[j].kind = "Io" /\ HasChild(j) /\ Child(j).state = "running"

\* C2: a call that returned TimedOut went through spawn, a bounded wait that
\* reported the elapsed deadline while the child was still running, a
\* successful kill and a successful final wait; its child is reaped.
C2_TimedOutMeansKilledAndReaped ==
    \A i \in Calls :
        result[i].kind = "TimedOut" =>
            /\ steps[i] = <<"spawn.ok", "wait_timeout.none", "kill.ok", "wait.ok">>
            /\ elapsed[i] = timeout[i]
            /\ Child(i).exitPc \in {"TimedOutKilling", "Reaping"}
            /\ Child(i).sigkill
            /\ Child(i).state = "reaped"

C2_Witness ==
    \E i \in Calls :
        /\ result[i].kind = "TimedOut"
        /\ Child(i).status.signal = SIGKILL
        /\ timeout[i] = MaxTimeout

\* C3: a call has returned Ok exactly if its spawn succeeded and the bounded
\* wait saw the child terminate within the deadline; the status returned is
\* the child's own, and no kill was issued.
C3_OkIffExitedWithinDeadline ==
    \A i \in Calls :
        Returned(i) =>
            /\ result[i].kind = "Ok" <=> steps[i] = <<"spawn.ok", "wait_timeout.some">>
            /\ result[i].kind = "Ok" <=>
                (HasChild(i) /\ Child(i).state = "reaped" /\ Child(i).exitPc = "Spawned")
            /\ result[i].kind = "Ok" =>
                /\ pc[i] = "Completed"
                /\ result[i].status = Child(i).status
                /\ result[i].status.code \in ExitCodes
                /\ Child(i).exitAt \in 0..timeout[i]
                /\ ~Child(i).sigkill
                /\ ~Did(i, "kill.ok") /\ ~Did(i, "kill.err")

C3_Witness ==
    \E i \in Calls :
        /\ result[i].kind = "Ok"
        /\ result[i].status = ExitStatus(MaxExitCode, 0)
        /\ Child(i).exitAt < timeout[i]

\* What format!("{:?}", command) prints for the commands of the model.
Rendered(c) ==
    IF c = <<"true">> THEN "\"true\"" ELSE "\"sleep\" \"10\""

\* C4: a call whose spawn failed has returned an Io error with the Command
\* context, the rendered command and the error of the spawn; it has no
\* child, executed nothing else, and no process was created for it.
C4_SpawnFailureIsCommandError ==
    /\ \A i \in Calls :
        Did(i, "spawn.err") =>
            /\ steps[i] = <<"spawn.err">>
            /\ pc[i] = "Failed"
            /\ result[i].kind = "Io"
            /\ result[i].context = IoErrorContext("Command", Rendered(command[i]))
            /\ result[i].error \in SpawnErrors
            /\ ~HasChild(i)
            /\ elapsed[i] = 0
    /\ Cardinality({p \in Pids : ptable[p].state # "free"})
        = Cardinality({i \in Calls : Did(i, "spawn.ok")})

C4_Witness ==
    \E i \in Calls :
        /\ Did(i, "spawn.err")
        /\ command[i] = <<"sleep", "10">>
        /\ result[i].error = "ENOENT"
        /\ \A p \in Pids : ptable[p].state = "free"

\* C5: a call returns an Io error exactly if one of its steps failed, the
\* context names that step, the error is that step's error, and the failed
\* step is the last one executed (the first failure ends the call).
C5_ContextNamesFailedStep ==
    \A i \in Calls :
        /\ \A k \in DOMAIN steps[i] : steps[i][k] \in Failures => k = Len(steps[i])
        /\ (\E op \in Failures : Did(i, op)) => result[i].kind = "Io"
        /\ Returned(i) =>
            /\ result[i].kind = "Io" <=> Last(i) \in Failures
            /\ result[i].context.tag = "Command" <=> Last(i) = "spawn.err"
            /\ result[i].context.tag = "WaitWithTimeout" <=> Last(i) = "wait_timeout.err"
            /\ result[i].context.tag = "KillProcess" <=> Last(i) = "kill.err"
            /\ result[i].context.tag = "WaitForProcess" <=> Last(i) = "wait.err"
            /\ result[i].kind = "Io" =>
                /\ result[i].context.tag
                    \in {"Command", "WaitWithTimeout", "KillProcess", "WaitForProcess"}
                /\ result[i].error \in
                    (CASE Last(i) = "spawn.err" -> SpawnErrors
                       [] Last(i) = "kill.err" -> KillErrors
                       [] OTHER -> WaitErrors)

C5_Witness ==
    \E i, j \in Calls :
        /\ result[i].context.tag = "KillProcess"
        /\ result[j].context.tag = "WaitForProcess"

\* The state machine of one invocation (spec 4.2); "Reaping" is the part of
\* TimedOutKilling after the kill request succeeded.
Edges ==
    {<<"NotStarted", "Spawned">>, <<"NotStarted", "Failed">>,
     <<"Spawned", "Completed">>, <<"Spawned", "TimedOutKilling">>,
     <<"Spawned", "Failed">>,
     <<"TimedOutKilling", "Reaping">>, <<"TimedOutKilling", "Failed">>,
     <<"Reaping", "Reaped">>, <<"Reaping", "Failed">>,
     <<"Reaped", "Failed">>}

\* C6: every step of an invocation follows an edge of the state machine, no
\* terminal state is left, and the result is set once, on entering the
\* terminal state: Ok with Completed, an error with Failed.
C6_ForwardOnlyOneResult ==
    [][\A i \in Calls :
        /\ pc'[i] # pc[i] => <<pc[i], pc'[i]>> \in Edges
        /\ pc[i] \in Terminal => pc'[i] = pc[i]
        /\ result[i] # NoResult => result'[i] = result[i]
        /\ pc'[i] = "Completed" <=> result'[i].kind = "Ok"
        /\ pc'[i] = "Failed" <=> result'[i].kind \in {"TimedOut", "Io"}
        /\ pc'[i] \notin Terminal <=> result'[i] = NoResult]_vars

C6_Witness ==
    \E i, j \in Calls :
        /\ pc[i] = "Reaped"
        /\ pc[j] = "Completed"

\* C7: under the fair specification every invocation eventually returns,
\* and the bounded wait never runs past its deadline.
C7_EveryCallReturns ==
    /\ [](\A i \in Calls : elapsed[i] <= timeout[i])
    /\ \A i \in Calls : <>Returned(i)

C7_Witness ==
    /\ \A i \in Calls : Returned(i)
    /\ \E i \in Calls :
        /\ steps[i] = <<"spawn.ok", "wait_timeout.none", "kill.ok", "wait.ok">>
        /\ Child(i).status.signal = SIGKILL

\* C8: the invocations hold distinct children; a step of one invocation
\* changes nothing of another invocation and no process but its own child;
\* an Ok carries the status of the invocation's own child.
C8_Independent ==
    /\ [](\A i, j \in Calls :
            (i # j /\ HasChild(i) /\ HasChild(j)) => child[i] # child[j])
    /\ [](\A i \in Calls :
            result[i].kind = "Ok" => result[i].status = Child(i).status)
    /\ [][\A i \in Calls :
            (pc'[i] # pc[i] \/ elapsed'[i] # elapsed[i]) =>
                /\ \A j \in Calls \ {i} :
                    /\ pc'[j] = pc[j]
                    /\ result'[j] = result[j]
                    /\ steps'[j] = steps[j]
                    /\ child'[j] = child[j]
                    /\ elapsed'[j] = elapsed[j]
                    /\ command'[j] = command[j]
                    /\ timeout'[j] = timeout[j]
                /\ \A p \in Pids : p # child'[i] => ptable'[p] = ptable[p]]_vars

C8_Witness ==
    \E i, j \in Calls :
        /\ result[i].kind = "TimedOut" /\ child[i] = 2
        /\ result[j].kind = "Ok" /\ child[j] = 1
        /\ timeout[i] # timeout[j]

\* The child of invocation i exited on its own when the deadline of the
\* bounded wait was reached, before the call returned.
Coincides(i) ==
    /\ HasChild(i)
    /\ Child(i).status.signal = 0
    /\ Child(i).exitAt = timeout[i]
    /\ Child(i).exitPc \in {"Spawned", "TimedOutKilling", "Reaping"}

\* C9 (as stated): a call whose child exited at the deadline returns Ok with
\* the child's status, without a kill, or TimedOut.
C9_OkOrTimedOut ==
    \A i \in Calls :
        (Returned(i) /\ Coincides(i)) =>
            /\ result[i].kind \in {"Ok", "TimedOut"}
            /\ result[i].kind = "Ok" =>
                (result[i].status = Child(i).status /\ ~Did(i, "kill.ok"))

\* C9 (amended): a call whose child exited at the deadline eventually
\* returns, after at most three operations following the spawn: Ok with the
\* child's status and no kill issued, TimedOut after a successful kill and
\* wait, or the Io error of the bounded wait, the kill or the final wait
\* that failed.
C9_BoundaryReturns ==
    /\ [](\A i \in Calls :
            /\ Len(steps[i]) <= 4
            /\ (Returned(i) /\ Coincides(i)) =>
                /\ result[i].kind = "Ok" =>
                    /\ result[i].status = Child(i).status
                    /\ ~Did(i, "kill.ok") /\ ~Did(i, "kill.err")
                    /\ ~Child(i).sigkill
                /\ result[i].kind = "TimedOut" =>
                    /\ Did(i, "kill.ok") /\ Did(i, "wait.ok")
                    /\ Child(i).state = "reaped"
                /\ result[i].kind \notin {"Ok", "TimedOut"} =>
                    /\ result[i].kind = "Io"
                    /\ Last(i) \in {"wait_timeout.err", "kill.err", "wait.err"})
    /\ \A i \in Calls : Coincides(i) ~> Returned(i)

C9_Witness ==
    \E i, j \in Calls :
        /\ Returned(i) /\ Coincides(i) /\ result[i].kind = "TimedOut"
        /\ Returned(j) /\ Coincides(j) /\ result[j].kind = "Ok"

\* The invocation waited its child to its natural completion.
NaturalWait(i) == Did(i, "wait_timeout.some")
\* The invocation issued a kill and then executed the final wait.
KillThenWait(i) ==
    \E k \in DOMAIN steps[i] :
        /\ steps[i][k] = "kill.ok"
        /\ k + 1 \in DOMAIN steps[i]
        /\ steps[i][k + 1] \in {"wait.ok", "wait.err"}

\* C10 (as stated): every call that returned with a child, other than with
\* the WaitWithTimeout error, performed a natural wait or a kill followed by
\* a wait, and leaves no running child it has not killed.
C10_OnlyWaitWithTimeoutSkipsCleanup ==
    \A i \in Calls :
        (Returned(i) /\ HasChild(i) /\ result[i].context.tag # "WaitWithTimeout") =>
            /\ NaturalWait(i) \/ KillThenWait(i)
            /\ ~(Child(i).state = "running" /\ ~Child(i).sigkill)

\* C10 (amended): the calls returning Ok, TimedOut or the WaitForProcess
\* error performed a natural wait or a kill followed by a wait and leave no
\* running child they have not killed; the calls returning the
\* WaitWithTimeout or the KillProcess error performed neither and leave the
\* child unreaped.
C10_CleanupUnlessWaitOrKillFailed ==
    \A i \in Calls :
        (Returned(i) /\ HasChild(i)) =>
            /\ result[i].context.tag \notin {"WaitWithTimeout", "KillProcess"} =>
                /\ NaturalWait(i) \/ KillThenWait(i)
                /\ ~(Child(i).state = "running" /\ ~Child(i).sigkill)
            /\ result[i].context.tag \in {"WaitWithTimeout", "KillProcess"} =>
                /\ ~NaturalWait(i) /\ ~KillThenWait(i)
                /\ Child(i).state \in {"running", "zombie"}
                /\ ~Child(i).sigkill

C10_Witness ==
    \E i, j \in Calls :
        /\ result[i].context.tag = "KillProcess" /\ Child(i).state = "running"
        /\ result[j].kind = "TimedOut" /\ Child(j).state = "reaped"

\* The last component of the directory the path lies in, if the path has a
\* directory and the directory ends in a name.
HasDirName(path) == Len(path) >= 2 /\ path[Len(path) - 1].c = "Normal"
DirName(path) == path[Len(path) - 1].name
ValidUtf8(name) == "FF" \notin {name[k] : k \in DOMAIN name}
HasPrefix(name, prefix) ==
    \A k \in DOMAIN prefix : k \in DOMAIN name /\ name[k] = prefix[k]

\* C11: binary_kind returns Test exactly for a path whose directory is named
\* "deps", DocTest exactly for one whose directory name starts with
\* "rustdoctest", and Other in every other case, such as a path without a
\* directory or a directory name that is no valid string; is_test is true
\* exactly for Test and DocTest.
C11_KindFromParentName ==
    kind # "none" =>
        LET path == binary_path
            named == HasDirName(path) /\ ValidUtf8(DirName(path))
        IN  /\ kind \in {"Test", "DocTest", "Other"}
            /\ kind = "Test" <=> (named /\ DirName(path) = Deps)
            /\ kind = "DocTest" <=> (named /\ HasPrefix(DirName(path), RustDocTest))
            /\ kind = "Other" <=>
                ~(named /\ (DirName(path) = Deps \/ HasPrefix(DirName(path), RustDocTest)))
            /\ test <=> kind \in {"Test", "DocTest"}

C11_Witness ==
    /\ kind = "DocTest"
    /\ test
    /\ HasDirName(binary_path)
    /\ DirName(binary_path) = RustDocTest \o <<"f", "o", "o">>

\* How many of the steps executed by invocation i are one of ops.
Count(i, ops) == Cardinality({k \in DOMAIN steps[i] : steps[i][k] \in ops})
SpawnOps == {"spawn.ok", "spawn.err"}
BoundedWaitOps == {"wait_timeout.some", "wait_timeout.none", "wait_timeout.err"}
KillOps == {"kill.ok", "kill.err"}
FinalWaitOps == {"wait.ok", "wait.err"}

\* C12: an invocation executes spawn, bounded wait, kill and final wait at
\* most once each; a kill is only issued after the bounded wait reported the
\* elapsed deadline, and a call that returned after that report issued it
\* exactly once; the final wait directly follows a successful kill, and a
\* failed kill is the last step of a call that returns KillProcess.
C12_NoRetryOrderedTimeoutPath ==
    \A i \in Calls :
        /\ \A ops \in {SpawnOps, BoundedWaitOps, KillOps, FinalWaitOps} :
            Count(i, ops) <= 1
        /\ \A k \in DOMAIN steps[i] :
            /\ steps[i][k] \in KillOps =>
                (k = 3 /\ steps[i][2] = "wait_timeout.none")
            /\ steps[i][k] \in FinalWaitOps =>
                (k = 4 /\ steps[i][3] = "kill.ok")
            /\ steps[i][k] \in BoundedWaitOps =>
                (k = 2 /\ steps[i][1] = "spawn.ok")
            /\ steps[i][k] \in SpawnOps => k = 1
        /\ Returned(i) =>
            (Did(i, "wait_timeout.none") <=> Count(i, KillOps) = 1)
        /\ Did(i, "kill.err") =>
            /\ Count(i, FinalWaitOps) = 0
            /\ Returned(i)
            /\ result[i].context.tag = "KillProcess"

C12_Witness ==
    \E i, j \in Calls :
        /\ steps[i] = <<"spawn.ok", "wait_timeout.none", "kill.err">>
        /\ steps[j] = <<"spawn.ok", "wait_timeout.none", "kill.ok", "wait.err">>

\* C13: a call whose bounded wait failed has returned the WaitWithTimeout
\* error right after it, with no kill sent and no further wait, so its
\* child is not reaped and may still be running.
C13_WaitErrorLeavesChild ==
    \A i \in Calls :
        Did(i, "wait_timeout.err") =>
            /\ steps[i] = <<"spawn.ok", "wait_timeout.err">>
            /\ pc[i] = "Failed"
            /\ result[i].kind = "Io"
            /\ result[i].context = IoErrorContext("WaitWithTimeout", "")
            /\ result[i].error \in WaitErrors
            /\ ~Child(i).sigkill
            /\ Child(i).state \in {"running", "zombie"}

C13_Witness ==
    \E i \in Calls :
        /\ result[i].context.tag = "WaitWithTimeout"
        /\ Child(i).state = "running"
        /\ elapsed[i] < timeout[i]

\* C14: once the bounded wait has collected the status of a child, the
\* invocation executes no kill and no final wait, and no step changes the
\* process table entry of a reaped process.
C14_ReapedChildUntouched ==
    /\ [](\A i \in Calls :
            Did(i, "wait_timeout.some") =>
                /\ Last(i) = "wait_timeout.some"
                /\ Count(i, KillOps) = 0 /\ Count(i, FinalWaitOps) = 0
                /\ Child(i).state = "reaped"
                /\ ~Child(i).sigkill)
    /\ [][\A p \in Pids :
            ptable[p].state = "reaped" => ptable'[p] = ptable[p]]_vars

C14_Witness ==
    \E i, j \in Calls :
        /\ Did(i, "wait_timeout.some")
        /\ Child(i).exitAt = timeout[i]
        /\ timeout[i] = MaxTimeout
        /\ i # j /\ pc[j] = "Reaping" /\ Child(j).sigkill

\* The child of invocation i exited on its own after the bounded wait
\* reported the elapsed deadline, before or after the kill was sent.
ExitedAfterDeadline(i) ==
    /\ HasChild(i)
    /\ Child(i).status.signal = 0
    /\ Child(i).exitPc \in {"TimedOutKilling", "Reaping"}

\* C15: a call whose child exited on its own after the bounded wait reported
\* the elapsed deadline never returns Ok and returns no status: it returns
\* TimedOut, after the final wait reaped the child, or the KillProcess or
\* WaitForProcess error of the step that failed.
C15_LateExitIsNotOk ==
    \A i \in Calls :
        (Returned(i) /\ ExitedAfterDeadline(i)) =>
            /\ result[i].kind # "Ok"
            /\ pc[i] = "Failed"
            /\ result[i].status = NoStatus
            /\ \/ /\ result[i] = TimedOut
                  /\ Last(i) = "wait.ok"
                  /\ Child(i).state = "reaped"
               \/ /\ result[i].kind = "Io"
                  /\ result[i].context.tag = "KillProcess"
                  /\ Last(i) = "kill.err"
               \/ /\ result[i].kind = "Io"
                  /\ result[i].context.tag = "WaitForProcess"
                  /\ Last(i) = "wait.err"

C15_Witness ==
    \E i \in Calls :
        /\ ExitedAfterDeadline(i)
        /\ Child(i).exitPc = "TimedOutKilling"
        /\ Child(i).status = ExitStatus(0, 0)
        /\ result[i] = TimedOut

====
